---------------------------- MODULE Spec2Model ----------------------------
(***************************************************************************)
(* Model of Sources/CFileSystemShims/CFileSystemShims.c: the two Linux     *)
(* syscall shims atomicfilewrite_renameat2_noreplace and                   *)
(* atomicfilewrite_getrandom, together with the part of the kernel they    *)
(* talk to (the path namespace for renameat2(2), the caller's buffer for   *)
(* getrandom(2)).                                                          *)
(*                                                                         *)
(* Spec        two threads call atomicfilewrite_renameat2_noreplace with   *)
(*             arbitrary paths on a shared file system.                    *)
(* SpecRace    every thread publishes its own temporary file to one common *)
(*             destination through the same shim.                          *)
(* SpecRandom  one caller calls atomicfilewrite_getrandom.                 *)
(***************************************************************************)
EXTENDS Integers, Sequences, FiniteSets, TLC

(* ------------------------------ bounds -------------------------------- *)

\* Number of path names of the file system.
NumPaths == 4
\* Size of the caller's buffer for getrandom, in bytes.
BufLen == 3

Paths == 1..NumPaths
\* One thread per path but the last: in SpecRace thread t owns temporary
\* path t and the last path is the destination everybody publishes to.
Threads == 1..(NumPaths - 1)
\* The threads that call in Spec.
FreeCallers == {1, 2}
TempPath(t) == t
Destination == NumPaths
\* The thread that calls atomicfilewrite_getrandom in SpecRandom.
RandomCaller == CHOOSE t \in Threads : \A u \in Threads : t <= u

\* A file's content is named by the path the file had initially.
Absent == 0
NoPath == Absent
Byte == {0, 1}

(* --------------------------- program constants ------------------------ *)

RENAME_NOREPLACE == 1
ENOENT == 2
EINTR == 4
EAGAIN == 11
EEXIST == 17
EXDEV == 18
EINVAL == 22
ENOSYS == 38
\* What the caller's int32_t holds before the call: no errno value, not 0.
Stale == 99

GRND_NONBLOCK == 1
GRND_RANDOM == 2
\* A bit that is no getrandom flag.
GRND_UNKNOWN == 8
Flags == {0, GRND_NONBLOCK, GRND_RANDOM, GRND_UNKNOWN}

Archs == {"x86_64", "aarch64", "arm", "other"}

\* #ifndef SYS_renameat2 ... #endif.  A build whose <sys/syscall.h> defines
\* the number itself behaves as the three architectures with a number.
SYS_renameat2(a) ==
    CASE a = "x86_64" -> 316
      [] a = "aarch64" -> 276
      [] a = "arm" -> 382
      [] OTHER -> -1

\* #ifndef SYS_getrandom ... #endif
SYS_getrandom(a) ==
    CASE a = "x86_64" -> 318
      [] a = "aarch64" -> 278
      [] a = "arm" -> 384
      [] OTHER -> -1

VARIABLES
    arch,             \* the architecture the shims were compiled for
    kernel_renameat2, \* the running kernel implements renameat2
    kernel_getrandom, \* the running kernel implements getrandom
    mnt,              \* the mount each path lies on
    fs,               \* path -> content, or Absent
    fs0,              \* history: fs before any call
    pc,               \* per thread: "idle", "entered", "check", "done"
    from, to,         \* per thread: the call's arguments
    out_errno,        \* per thread: the caller's int32_t behind out_errno
    result,           \* per thread: the local variable result
    errno,            \* per thread: the thread-local errno
    ret,              \* per thread: the value the call returned
    pre, post,        \* history, per thread: fs right before and right
                      \* after the thread's call took effect
    crng_ready,       \* the kernel's CSPRNG is seeded
    gpc,              \* the getrandom caller: "idle", "entered", "done"
    buffer,           \* the caller's buffer, BufLen bytes
    length, flags,    \* the getrandom call's arguments
    gret,             \* the value atomicfilewrite_getrandom returned
    buffer0,          \* history: the buffer before the call
    written,          \* history: bytes the kernel stored into the buffer
    short_read,       \* history: the kernel delivered less than it was asked
    nsyscalls         \* history: getrandom syscalls issued by the call

cfgvars == <<arch, kernel_renameat2, kernel_getrandom>>
fsvars == <<mnt, fs, fs0>>
rvars == <<pc, from, to, out_errno, result, ret, pre, post>>
gvars == <<crng_ready, gpc, buffer, length, flags, gret, buffer0, written,
           short_read, nsyscalls>>
vars == <<cfgvars, fsvars, rvars, errno, gvars>>

(* ------------------------ the kernel: renameat2 ----------------------- *)

\* renameat2(AT_FDCWD, oldp, AT_FDCWD, newp, flg) on file system f: the
\* return value, the errno it sets and the file system afterwards.  One
\* indivisible step of the kernel.  flg = 0 is plain rename(2), which
\* replaces an existing newp.
Renameat2(f, oldp, newp, flg) ==
    IF ~kernel_renameat2 THEN [res |-> -1, err |-> ENOSYS, fs |-> f]
    ELSE IF flg \notin {0, RENAME_NOREPLACE} THEN [res |-> -1, err |-> EINVAL, fs |-> f]
    ELSE IF mnt[oldp] # mnt[newp] THEN [res |-> -1, err |-> EXDEV, fs |-> f]
    ELSE IF f[oldp] = Absent THEN [res |-> -1, err |-> ENOENT, fs |-> f]
    ELSE IF flg = RENAME_NOREPLACE /\ f[newp] # Absent
         THEN [res |-> -1, err |-> EEXIST, fs |-> f]
    ELSE IF oldp = newp THEN [res |-> 0, err |-> 0, fs |-> f]
    ELSE [res |-> 0, err |-> 0,
          fs |-> [f EXCEPT ![newp] = f[oldp], ![oldp] = Absent]]

(* --------------- atomicfilewrite_renameat2_noreplace ------------------ *)

\* Faulty variant: the flags argument is left 0, which is plain rename(2).
RenameSyscallArgs_NoFlag(t) == <<from[t], to[t], 0>>

\* Faulty variant: the two paths are handed over in the wrong order.
RenameSyscallArgs_Swapped(t) == <<to[t], from[t], RENAME_NOREPLACE>>

\* Faulty variant: the paths are kept in one static slot that the first
\* thread's arguments occupy.
RenameSyscallArgs_Static(t) ==
    IF pc[1] = "idle" THEN <<from[t], to[t], RENAME_NOREPLACE>>
    ELSE <<from[1], to[1], RENAME_NOREPLACE>>

\* The arguments the shim hands to the syscall: from, to, RENAME_NOREPLACE.
RenameSyscallArgs(t) == <<from[t], to[t], RENAME_NOREPLACE>>

\* Entry into the shim with the paths f and d and an out_errno cell.
Enter(t, f, d) ==
    /\ pc[t] = "idle"
    /\ from' = [from EXCEPT ![t] = f]
    /\ to' = [to EXCEPT ![t] = d]
    /\ out_errno' = [out_errno EXCEPT ![t] = Stale]
    /\ pc' = [pc EXCEPT ![t] = "entered"]
    /\ UNCHANGED <<cfgvars, fsvars, result, errno, ret, pre, post, gvars>>

\* A caller enters with any two paths.
renameat2_enter(t) ==
    /\ t \in FreeCallers
    /\ \E f \in Paths, d \in Paths : Enter(t, f, d)

\* A caller publishes its own temporary file to the common destination.
renameat2_enter_race(t) == Enter(t, TempPath(t), Destination)

\* Faulty variant: the rename is emulated by link(from, to), with the
\* unlink(from) left for later, so the content is visible under both names.
renameat2_syscall_link(t) ==
    /\ pc[t] = "entered"
    /\ SYS_renameat2(arch) > 0
    /\ LET ok == fs[from[t]] # Absent /\ fs[to[t]] = Absent
           nfs == IF ok THEN [fs EXCEPT ![to[t]] = fs[from[t]]] ELSE fs
       IN /\ fs' = nfs
          /\ post' = [post EXCEPT ![t] = nfs]
          /\ result' = [result EXCEPT ![t] = IF ok THEN 0 ELSE -1]
          /\ errno' = [errno EXCEPT ![t] = IF ok THEN @ ELSE EEXIST]
    /\ pre' = [pre EXCEPT ![t] = fs]
    /\ pc' = [pc EXCEPT ![t] = "check"]
    /\ UNCHANGED <<cfgvars, mnt, fs0, from, to, out_errno, ret, gvars>>

\* #if SYS_renameat2 > 0: int result = (int)syscall(SYS_renameat2, ...);
renameat2_syscall(t) ==
    /\ pc[t] = "entered"
    /\ SYS_renameat2(arch) > 0
    /\ LET a == RenameSyscallArgs(t)
           r == Renameat2(fs, a[1], a[2], a[3])
       IN /\ fs' = r.fs
          /\ post' = [post EXCEPT ![t] = r.fs]
          /\ result' = [result EXCEPT ![t] = r.res]
          /\ errno' = [errno EXCEPT ![t] = IF r.res = -1 THEN r.err ELSE @]
    /\ pre' = [pre EXCEPT ![t] = fs]
    /\ pc' = [pc EXCEPT ![t] = "check"]
    /\ UNCHANGED <<cfgvars, mnt, fs0, from, to, out_errno, ret, gvars>>

\* Faulty variant: the success path returns without storing 0.
renameat2_return_nozero(t) ==
    /\ pc[t] = "check"
    /\ IF result[t] = -1
       THEN /\ out_errno' = [out_errno EXCEPT ![t] = errno[t]]
            /\ ret' = [ret EXCEPT ![t] = -1]
       ELSE /\ out_errno' = out_errno
            /\ ret' = [ret EXCEPT ![t] = 0]
    /\ pc' = [pc EXCEPT ![t] = "done"]
    /\ UNCHANGED <<cfgvars, fsvars, from, to, result, errno, pre, post, gvars>>

\* Faulty variant: the failure test compares with 1 instead of -1, so a
\* failed syscall is reported as success.
renameat2_return_wrongtest(t) ==
    /\ pc[t] = "check"
    /\ IF result[t] = 1
       THEN /\ out_errno' = [out_errno EXCEPT ![t] = errno[t]]
            /\ ret' = [ret EXCEPT ![t] = -1]
       ELSE /\ out_errno' = [out_errno EXCEPT ![t] = 0]
            /\ ret' = [ret EXCEPT ![t] = 0]
    /\ pc' = [pc EXCEPT ![t] = "done"]
    /\ UNCHANGED <<cfgvars, fsvars, from, to, result, errno, pre, post, gvars>>

\* if (result == -1) { *out_errno = errno; return -1; }
\* *out_errno = 0; return 0;
renameat2_return(t) ==
    /\ pc[t] = "check"
    /\ IF result[t] = -1
       THEN /\ out_errno' = [out_errno EXCEPT ![t] = errno[t]]
            /\ ret' = [ret EXCEPT ![t] = -1]
       ELSE /\ out_errno' = [out_errno EXCEPT ![t] = 0]
            /\ ret' = [ret EXCEPT ![t] = 0]
    /\ pc' = [pc EXCEPT ![t] = "done"]
    /\ UNCHANGED <<cfgvars, fsvars, from, to, result, errno, pre, post, gvars>>

\* Faulty variant: without the syscall the shim checks that the
\* destination is absent and then calls plain rename(2).
renameat2_unavailable_fallback(t) ==
    /\ pc[t] = "entered"
    /\ ~(SYS_renameat2(arch) > 0)
    /\ LET ok == /\ fs[from[t]] # Absent
                 /\ fs[to[t]] = Absent
                 /\ mnt[from[t]] = mnt[to[t]]
           nfs == IF ok THEN [fs EXCEPT ![to[t]] = fs[from[t]], ![from[t]] = Absent]
                  ELSE fs
       IN /\ fs' = nfs
          /\ post' = [post EXCEPT ![t] = nfs]
          /\ out_errno' = [out_errno EXCEPT ![t] = IF ok THEN 0 ELSE EEXIST]
          /\ ret' = [ret EXCEPT ![t] = IF ok THEN 0 ELSE -1]
    /\ pre' = [pre EXCEPT ![t] = fs]
    /\ pc' = [pc EXCEPT ![t] = "done"]
    /\ UNCHANGED <<cfgvars, mnt, fs0, from, to, result, errno, gvars>>

\* #else: *out_errno = ENOSYS; return -1;
renameat2_unavailable(t) ==
    /\ pc[t] = "entered"
    /\ ~(SYS_renameat2(arch) > 0)
    /\ out_errno' = [out_errno EXCEPT ![t] = ENOSYS]
    /\ ret' = [ret EXCEPT ![t] = -1]
    /\ pre' = [pre EXCEPT ![t] = fs]
    /\ post' = [post EXCEPT ![t] = fs]
    /\ pc' = [pc EXCEPT ![t] = "done"]
    /\ UNCHANGED <<cfgvars, fsvars, from, to, result, errno, gvars>>

(* ------------------------ the kernel: getrandom ----------------------- *)

\* buf with its first n bytes replaced by those of bytes.
Fill(buf, n, bytes) == [i \in 1..BufLen |-> IF i <= n THEN bytes[i] ELSE buf[i]]

\* getrandom(buf, len, flg): every outcome the kernel may produce, as the
\* return value, the errno it sets, the buffer afterwards, the number of
\* bytes stored and whether that is less than len.  A request may come
\* back short (GRND_RANDOM, or a signal during a large request); a failed
\* request stores nothing.
Getrandom(buf, len, flg) ==
    LET fail(e) == {[res |-> -1, err |-> e, buf |-> buf, n |-> 0, short |-> FALSE]}
    IN  IF ~kernel_getrandom THEN fail(ENOSYS)
        ELSE IF flg \notin {0, GRND_NONBLOCK, GRND_RANDOM} THEN fail(EINVAL)
        ELSE IF ~crng_ready
             THEN (IF flg = GRND_NONBLOCK THEN fail(EAGAIN) ELSE fail(EINTR))
        ELSE {[res |-> n, err |-> 0, buf |-> Fill(buf, n, b), n |-> n,
               short |-> n < len] :
                  n \in (IF len = 0 THEN {0} ELSE 1..len),
                  b \in [1..BufLen -> Byte]}

\* The seeding of the kernel's CSPRNG completes.
crng_init ==
    /\ ~crng_ready
    /\ crng_ready' = TRUE
    /\ UNCHANGED <<cfgvars, fsvars, rvars, errno, gpc, buffer, length, flags,
                   gret, buffer0, written, short_read, nsyscalls>>

(* ---------------------- atomicfilewrite_getrandom --------------------- *)

\* Entry with a buffer of BufLen bytes, a length within it and flags.
getrandom_enter ==
    /\ gpc = "idle"
    /\ \E len \in 0..BufLen, flg \in Flags :
        /\ length' = len
        /\ flags' = flg
    /\ gpc' = "entered"
    /\ UNCHANGED <<cfgvars, fsvars, rvars, errno, crng_ready, buffer, gret,
                   buffer0, written, short_read, nsyscalls>>

\* Faulty variant: the shim asks for the rest after a short read until
\* the buffer is full, and returns the full length.
ShimGetrandom_Retry(buf, len, flg) ==
    {IF o.res = -1 THEN o
     ELSE [res |-> len, err |-> 0, buf |-> Fill(o.buf, len, b), n |-> len,
           short |-> o.short] :
        o \in Getrandom(buf, len, flg), b \in {[i \in 1..BufLen |-> 1]}}

\* Faulty variant: the length handed to the kernel is one too large.
ShimGetrandom_Overrun(buf, len, flg) ==
    Getrandom(buf, IF len < BufLen THEN len + 1 ELSE len, flg)

\* What one call of the shim can do: the kernel's outcome, handed through.
\* return syscall(SYS_getrandom, buffer, length, flags);
ShimGetrandom(buf, len, flg) == Getrandom(buf, len, flg)

\* #if SYS_getrandom > 0: return syscall(SYS_getrandom, buffer, length, flags);
getrandom_syscall ==
    /\ gpc = "entered"
    /\ SYS_getrandom(arch) > 0
    /\ \E o \in ShimGetrandom(buffer, length, flags) :
        /\ buffer' = o.buf
        /\ gret' = o.res
        /\ errno' = [errno EXCEPT ![RandomCaller] = IF o.res = -1 THEN o.err ELSE @]
        /\ written' = o.n
        /\ short_read' = o.short
    /\ nsyscalls' = nsyscalls + 1
    /\ gpc' = "done"
    /\ UNCHANGED <<cfgvars, fsvars, rvars, crng_ready, length, flags, buffer0>>

\* Faulty variant: without the syscall the shim fills the buffer from a
\* generator of its own and reports success.
getrandom_unavailable_fallback ==
    /\ gpc = "entered"
    /\ ~(SYS_getrandom(arch) > 0)
    /\ buffer' = [i \in 1..BufLen |-> IF i <= length THEN 1 - buffer[i] ELSE buffer[i]]
    /\ gret' = length
    /\ gpc' = "done"
    /\ UNCHANGED <<cfgvars, fsvars, rvars, errno, crng_ready, length, flags,
                   buffer0, written, short_read, nsyscalls>>

\* #else: errno = ENOSYS; return -1;
getrandom_unavailable ==
    /\ gpc = "entered"
    /\ ~(SYS_getrandom(arch) > 0)
    /\ errno' = [errno EXCEPT ![RandomCaller] = ENOSYS]
    /\ gret' = -1
    /\ gpc' = "done"
    /\ UNCHANGED <<cfgvars, fsvars, rvars, crng_ready, buffer, length, flags,
                   buffer0, written, short_read, nsyscalls>>

(* --------------------------- specifications --------------------------- *)

InitThreads ==
    /\ pc = [t \in Threads |-> "idle"]
    /\ from = [t \in Threads |-> NoPath]
    /\ to = [t \in Threads |-> NoPath]
    /\ out_errno = [t \in Threads |-> Stale]
    /\ result = [t \in Threads |-> 0]
    /\ errno = [t \in Threads |-> 0]
    /\ ret = [t \in Threads |-> 0]
    /\ pre = [t \in Threads |-> fs]
    /\ post = [t \in Threads |-> fs]

InitRandomCaller ==
    /\ gpc = "idle"
    /\ length = 0
    /\ flags = 0
    /\ gret = 0
    /\ buffer0 = buffer
    /\ written = 0
    /\ short_read = FALSE
    /\ nsyscalls = 0

\* Any build, any kernel, any files; nobody has called yet.
Init ==
    /\ arch \in Archs
    /\ kernel_renameat2 \in BOOLEAN
    /\ kernel_getrandom = TRUE
    /\ mnt \in {[p \in Paths |-> 1], [p \in Paths |-> IF p = NumPaths THEN 2 ELSE 1]}
    /\ fs \in {f \in [Paths -> Paths \cup {Absent}] : \A p \in Paths : f[p] \in {Absent, p}}
    /\ fs0 = fs
    /\ InitThreads
    /\ crng_ready = TRUE
    /\ buffer = [i \in 1..BufLen |-> 0]
    /\ InitRandomCaller

InitRandom ==
    /\ arch \in Archs
    /\ kernel_renameat2 = TRUE
    /\ kernel_getrandom \in BOOLEAN
    /\ mnt = [p \in Paths |-> 1]
    /\ fs = [p \in Paths |-> Absent]
    /\ fs0 = fs
    /\ InitThreads
    /\ crng_ready \in BOOLEAN
    /\ buffer \in [1..BufLen -> Byte]
    /\ InitRandomCaller

Next ==
    \E t \in Threads :
        \/ renameat2_enter(t)
        \/ renameat2_syscall(t)
        \/ renameat2_return(t)
        \/ renameat2_unavailable(t)

NextRace ==
    \E t \in Threads :
        \/ renameat2_enter_race(t)
        \/ renameat2_syscall(t)
        \/ renameat2_return(t)
        \/ renameat2_unavailable(t)

NextRandom ==
    \/ getrandom_enter
    \/ getrandom_syscall
    \/ getrandom_unavailable
    \/ crng_init

Spec == Init /\ [][Next]_vars
SpecRace == Init /\ [][NextRace]_vars
SpecRandom == InitRandom /\ [][NextRandom]_vars

(* ------------------------------- claims ------------------------------- *)

Done(t) == pc[t] = "done"
Invoked == {t \in Threads : pc[t] # "idle"}
\* The no-replace rename exists in this build and in the running kernel.
PrimitiveAvailable == SYS_renameat2(arch) > 0 /\ kernel_renameat2
SameVolume(t) == mnt[from[t]] = mnt[to[t]]
\* File system f after the file at s has been renamed to d.
Moved(f, s, d) == [f EXCEPT ![d] = f[s], ![s] = Absent]

\* C1: when two or more callers race to publish different existing source
\* files to the same destination D, absent beforehand (D on the sources'
\* volume, primitive available), then once all have returned exactly one
\* has returned 0 and every other has returned -1 with EEXIST; D holds the
\* winner's content, the winner's source is gone and every loser's source
\* is still there with its content.
C1_RaceOneWinner ==
    ( /\ Cardinality(Invoked) >= 2
      /\ PrimitiveAvailable
      /\ \A t \in Invoked :
            /\ Done(t)
            /\ SameVolume(t)
            /\ fs0[from[t]] # Absent
            /\ fs0[to[t]] = Absent
      /\ \A t, u \in Invoked : to[t] = to[u] /\ (t # u => from[t] # from[u]) )
    => \E w \in Invoked :
          /\ ret[w] = 0 /\ out_errno[w] = 0
          /\ fs[to[w]] = fs0[from[w]]
          /\ fs[from[w]] = Absent
          /\ \A l \in Invoked \ {w} :
                /\ ret[l] = -1 /\ out_errno[l] = EEXIST
                /\ fs[from[l]] = fs0[from[l]]

C1_Witness ==
    /\ Cardinality(Invoked) >= 2
    /\ PrimitiveAvailable
    /\ \A t \in Invoked :
          Done(t) /\ SameVolume(t) /\ fs0[from[t]] # Absent /\ fs0[to[t]] = Absent
    /\ \E w, l \in Invoked : ret[w] = 0 /\ ret[l] = -1 /\ out_errno[l] = EEXIST

\* C2: a call whose source exists and whose destination is absent when it
\* takes effect (same volume, primitive available) returns 0; right after
\* it the destination holds what the source held, the source is gone and
\* no other path has changed.
C2_RenameSucceeds ==
    \A t \in Threads :
        ( /\ Done(t)
          /\ PrimitiveAvailable
          /\ SameVolume(t)
          /\ pre[t][from[t]] # Absent
          /\ pre[t][to[t]] = Absent )
        => /\ ret[t] = 0
           /\ post[t][to[t]] = pre[t][from[t]]
           /\ post[t][from[t]] = Absent
           /\ \A p \in Paths \ {from[t], to[t]} : post[t][p] = pre[t][p]

C2_Witness ==
    \E t \in Threads :
        /\ Done(t) /\ PrimitiveAvailable /\ SameVolume(t)
        /\ pre[t][from[t]] # Absent /\ pre[t][to[t]] = Absent
        /\ ret[t] = 0

\* C3: a call whose destination exists when it takes effect returns -1 and
\* leaves the whole file system as it was (destination and source keep
\* their content); with the source present on the destination's volume and
\* the primitive available the error is EEXIST.
C3_ExistingDestinationKept ==
    \A t \in Threads :
        (Done(t) /\ pre[t][to[t]] # Absent)
        => /\ ret[t] = -1
           /\ post[t] = pre[t]
           /\ (PrimitiveAvailable /\ SameVolume(t) /\ pre[t][from[t]] # Absent)
                 => out_errno[t] = EEXIST

C3_Witness ==
    \E t \in Threads :
        /\ Done(t) /\ PrimitiveAvailable /\ SameVolume(t)
        /\ from[t] # to[t]
        /\ pre[t][to[t]] # Absent /\ pre[t][from[t]] # Absent
        /\ out_errno[t] = EEXIST

\* C5: when the primitive is unavailable (the build has no syscall number,
\* or the kernel does not implement the syscall) the call returns -1 with
\* ENOSYS, which is not EEXIST, and mutates nothing.
C5_UnavailableIsENOSYS ==
    \A t \in Threads :
        (Done(t) /\ ~PrimitiveAvailable)
        => /\ ret[t] = -1
           /\ out_errno[t] = ENOSYS
           /\ out_errno[t] # EEXIST
           /\ post[t] = pre[t]

C5_Witness ==
    \E t \in Threads :
        /\ Done(t) /\ ~(SYS_renameat2(arch) > 0)
        /\ SameVolume(t)
        /\ pre[t][from[t]] # Absent /\ pre[t][to[t]] = Absent

\* The errno of a rename that fails from the state pre[t].
OsError(t) ==
    IF ~PrimitiveAvailable THEN ENOSYS
    ELSE IF ~SameVolume(t) THEN EXDEV
    ELSE IF pre[t][from[t]] = Absent THEN ENOENT
    ELSE EEXIST

\* C6: every return has stored into *out_errno; the call returns 0 exactly
\* when it stored 0, and -1 exactly when it stored the nonzero error number
\* of the failed rename, untranslated.
C6_ReturnAgreesWithErrno ==
    \A t \in Threads :
        Done(t)
        => /\ ret[t] \in {0, -1}
           /\ out_errno[t] # Stale
           /\ (ret[t] = 0 <=> out_errno[t] = 0)
           /\ (ret[t] = -1 <=> (out_errno[t] # 0 /\ out_errno[t] = OsError(t)))

C6_Witness ==
    \E t, u \in Threads :
        /\ Done(t) /\ ret[t] = 0
        /\ Done(u) /\ ret[u] = -1 /\ out_errno[u] \in {ENOENT, EEXIST, EXDEV}

\* C7: every step either leaves the file system as it is or is one call's
\* syscall moving the whole content of S to a D that was absent, S
\* disappearing in the same step: nobody sees the content under both names
\* or under neither, and an existing D is never replaced.
C7_PublishIsOneStep ==
    [][ \/ fs' = fs
        \/ \E t \in Threads :
              /\ pc[t] = "entered" /\ pc'[t] = "check"
              /\ fs[from[t]] # Absent
              /\ fs[to[t]] = Absent
              /\ fs' = Moved(fs, from[t], to[t])
              /\ result'[t] = 0 ]_vars

C7_Witness ==
    \E t, u \in Threads :
        /\ pc[t] = "check" /\ result[t] = 0
        /\ pc[u] = "entered"
        /\ fs[to[t]] = pre[t][from[t]] /\ fs[from[t]] = Absent

\* C9: callers with pairwise different existing sources and pairwise
\* different destinations, absent beforehand (each on its source's volume,
\* primitive available), all succeed, and each call
\* leaves its two paths as it would have running alone from the initial
\* file system; no other path changes.
C9_DisjointCallsIndependent ==
    ( /\ Cardinality(Invoked) >= 2
      /\ PrimitiveAvailable
      /\ \A t \in Invoked :
            /\ Done(t)
            /\ SameVolume(t)
            /\ fs0[from[t]] # Absent
            /\ fs0[to[t]] = Absent
      /\ \A t, u \in Invoked : t # u => (from[t] # from[u] /\ to[t] # to[u]) )
    => /\ \A t \in Invoked :
             LET alone == Moved(fs0, from[t], to[t])
             IN /\ ret[t] = 0 /\ out_errno[t] = 0
                /\ fs[from[t]] = alone[from[t]]
                /\ fs[to[t]] = alone[to[t]]
                /\ post[t] = Moved(pre[t], from[t], to[t])
       /\ \A p \in Paths :
             (\A t \in Invoked : p # from[t] /\ p # to[t]) => fs[p] = fs0[p]

C9_Witness ==
    /\ Cardinality(Invoked) >= 2
    /\ PrimitiveAvailable
    /\ \A t \in Invoked :
          Done(t) /\ SameVolume(t) /\ fs0[from[t]] # Absent /\ fs0[to[t]] = Absent
    /\ \A t, u \in Invoked : t # u => (from[t] # from[u] /\ to[t] # to[u])
    /\ \A t \in Invoked : ret[t] = 0

GDone == gpc = "done"

\* C4, as stated: a successful return has delivered exactly length bytes.
C4_FullLengthOnSuccess ==
    (GDone /\ gret >= 0) => (gret = length /\ written = length)

\* C4, amended: a successful return r has delivered exactly r bytes, with
\* 0 <= r <= length; the call issues one syscall and does not retry, so
\* r < length exactly when the kernel's read was short.
C4_CountIsWhatWasDelivered ==
    (GDone /\ gret >= 0)
    => /\ gret = written
       /\ 0 <= gret /\ gret <= length
       /\ nsyscalls = 1
       /\ (short_read <=> gret < length)

C4_Witness == GDone /\ gret >= 1 /\ gret < length /\ short_read

\* C8: with no getrandom syscall for the build (or none in the kernel) the
\* call returns -1 with errno ENOSYS and the buffer is untouched.
C8_NoSourceFailsFast ==
    (GDone /\ (~(SYS_getrandom(arch) > 0) \/ ~kernel_getrandom))
    => /\ gret = -1
       /\ errno[RandomCaller] = ENOSYS
       /\ buffer = buffer0
       /\ written = 0

C8_Witness == GDone /\ ~(SYS_getrandom(arch) > 0) /\ length > 0 /\ gret = -1

\* C10: the call returns -1 with a nonzero errno and nothing stored, or a
\* count r with 0 <= r <= length that is the number of bytes stored; bytes
\* of the buffer past r are as before the call.
C10_CountWithinLength ==
    GDone
    => /\ \/ gret = -1 /\ errno[RandomCaller] # 0 /\ written = 0
          \/ 0 <= gret /\ gret <= length /\ gret = written
       /\ \A i \in 1..BufLen :
             i > (IF gret = -1 THEN 0 ELSE gret) => buffer[i] = buffer0[i]

C10_Witness ==
    /\ GDone /\ gret >= 1 /\ gret < BufLen
    /\ \E i \in 1..gret : buffer[i] # buffer0[i]
    /\ \E i \in (gret + 1)..BufLen : buffer0[i] = 1

=============================================================================
